---- MODULE Spec2Model ----
(***************************************************************************)
(* A model of gosignify (src/signify/signify.go): the envelope codec, the  *)
(* passphrase key masking, key generation, signing, verification and the   *)
(* checksum-manifest verifier.                                             *)
(*                                                                         *)
(* Text (comments, paths, passphrase lines, messages) is modelled by TLA+  *)
(* strings, with the Go string functions written out on them.  Binary      *)
(* records are TLA+ records with the Go struct's field names.  The         *)
(* cryptographic primitives are idealised: key material is a 2-bit value,  *)
(* SHA-512 and bcrypt_pbkdf are collision free on the modelled domain, and *)
(* an Ed25519 signature verifies exactly for the key and message it was    *)
(* made with.                                                              *)
(***************************************************************************)
EXTENDS Integers, Sequences, FiniteSets, TLC

VARIABLES
    fs,      \* the file system: path -> content (NoFile when absent)
    prov,    \* history: path -> which command wrote the file, and from what
    last,    \* the last command run: its arguments, result and effects
    cb,      \* the comment-bound experiment (writeb64file against parseb64file)
    ck       \* the checksum-manifest experiment (verifychecksums)

vars == <<fs, prov, last, cb, ck>>

(***************************** program constants ***************************)
SIGBYTES == 64
SECRETBYTES == 64
PUBLICBYTES == 32
KEYNUMLEN == 8
COMMENTHDRLEN == 19
COMMENTMAXLEN == 1024
SHA256Size == 32
SHA512Size == 64
DefaultRounds == 42

PKALG == "Ed"
KDFALG == "BK"
COMMENTHDR == "untrusted comment: "
VERIFYWITH == "verify with "
safepath == "/etc/signify/"

(********************************* bounds **********************************)
\* comment lengths are taken up to CommentSpan characters either side of the
\* longest comment that fits the length bound
CommentSpan == 60
\* number of distinct key pairs the random source can produce
NumKeys == 2
\* number of distinct key identifiers the random source can produce
NumKeynums == 2
\* longest manifest, in lines
MaxLines == 2

(****************************** Go strings *********************************)
HasPrefix(s, p) == Len(s) >= Len(p) /\ SubSeq(s, 1, Len(p)) = p

HasSuffix(s, p) == Len(s) >= Len(p) /\ SubSeq(s, Len(s) - Len(p) + 1, Len(s)) = p

TrimPrefix(s, p) == IF HasPrefix(s, p) THEN SubSeq(s, Len(p) + 1, Len(s)) ELSE s

TrimSuffix(s, p) == IF HasSuffix(s, p) THEN SubSeq(s, 1, Len(s) - Len(p)) ELSE s

\* strings.Index, 1-based; 0 when sub does not occur in s
Index(s, sub) ==
    LET hits == {i \in 1..(Len(s) - Len(sub) + 1) : SubSeq(s, i, i + Len(sub) - 1) = sub}
    IN IF hits = {} THEN 0 ELSE CHOOSE i \in hits : \A j \in hits : i <= j

Contains(s, sub) == Index(s, sub) # 0

\* strings.SplitAfterN(s, sep, n) for n > 0: at most n pieces, each but the
\* last ending with sep; the last piece is the unsplit remainder
RECURSIVE SplitAfterN(_, _, _)
SplitAfterN(s, sep, n) ==
    LET i == Index(s, sep)
    IN IF n <= 1 \/ i = 0
       THEN <<s>>
       ELSE <<SubSeq(s, 1, i + Len(sep) - 1)>>
            \o SplitAfterN(SubSeq(s, i + Len(sep), Len(s)), sep, n - 1)

\* a text of n filler characters
RECURSIVE Pad(_)
Pad(n) ==
    IF n <= 0 THEN ""
    ELSE LET h == Pad(n \div 2) IN h \o h \o (IF n % 2 = 1 THEN "x" ELSE "")

(************************* idealised cryptography ***************************)
\* key material is a value in 0..3 (two bits); 0 is never a generated key
KeyValues == 0..3

\* byte-wise XOR of two key-sized buffers
Xor(a, b) == (((a % 2) + (b % 2)) % 2) + 2 * (((a \div 2) + (b \div 2)) % 2)

\* hash.SHA512 of a key-sized buffer, and its first 8 bytes (digest[:8]):
\* collision free on KeyValues, never the all-zero digest
SHA512(x) == 1 + ((3 * x + 1) % 4)

\* ed25519.GenerateKey: the public key that belongs to private key k
PublicOf(k) == 100 + k

\* ed25519.Sign and ed25519.Verify
Ed25519Sign(seckey, msg) == [k |-> seckey, m |-> msg]

Ed25519Verify(pub, msg, s) == s.k # 0 /\ PublicOf(s.k) = pub /\ s.m = msg

RECURSIVE PassCode(_)
PassCode(p) ==
    IF p = "" THEN 0
    ELSE LET c == SubSeq(p, Len(p), Len(p))
             d == IF c = "a" THEN 1 ELSE IF c = "b" THEN 2 ELSE 3
         IN 3 * PassCode(SubSeq(p, 1, Len(p) - 1)) + d

\* bcrypt_pbkdf.Key(p, salt, rounds, len(key)): deterministic, never the zero
\* mask, and distinct for the distinct passphrases of the model
bcrypt_pbkdf(p, salt, rounds) == 1 + ((PassCode(p) + salt + rounds) % 3)

(****************************** binary records *****************************)
Nil == [t |-> "nil"]

\* binary.Write lays a struct out in field order; its length is the sum of
\* the field widths
BlobSize(buf) ==
    CASE buf.t = "enckey" -> 2 + 2 + 4 + 16 + 8 + KEYNUMLEN + SECRETBYTES
      [] buf.t = "pubkey" -> 2 + KEYNUMLEN + PUBLICBYTES
      [] buf.t = "sig"    -> 2 + KEYNUMLEN + SIGBYTES
      [] OTHER            -> 0

GarbageSig == [k |-> 0, m |-> ""]

\* binary.Read(bytes.NewReader(buf), binary.BigEndian, &x) for x of struct
\* type t: fails when buf is shorter than the struct, and otherwise fills the
\* fields from the leading bytes whatever they were written as
BinaryRead(buf, t) ==
    LET want == [t |-> t]
    IN IF BlobSize(buf) = 0 THEN [err |-> "EOF", v |-> Nil]
       ELSE IF BlobSize(buf) < BlobSize(want) THEN [err |-> "unexpected EOF", v |-> Nil]
       ELSE IF buf.t = t THEN [err |-> "", v |-> buf]
       ELSE IF t = "sig"
            THEN [err |-> "", v |-> [t |-> "sig", Pkalg |-> buf.Pkalg, Keynum |-> 0,
                                     Sig |-> GarbageSig]]
       ELSE \* t = "pubkey" read from a signature: the identifier is at the same offset
            [err |-> "", v |-> [t |-> "pubkey", Pkalg |-> buf.Pkalg,
                                Keynum |-> IF buf.t = "sig" THEN buf.Keynum ELSE 0,
                                Pubkey |-> 0]]

(******************************* file system *******************************)
NoFile == [kind |-> "none"]

\* a file of arbitrary bytes
Raw(s) == [kind |-> "raw", data |-> s]

\* a file holding line \n base64(blob) \n msg
Env(line, blob, msg) == [kind |-> "env", line |-> line, blob |-> blob, msg |-> msg]

Ev(e, f) == [ev |-> e, path |-> f]

\* the content at a path; a path the file system does not hold is absent
Lookup(fsys, fname) == IF fname \in DOMAIN fsys THEN fsys[fname] ELSE NoFile

\* xopen for reading (os.O_RDONLY)
xopenRead(fsys, fname) ==
    IF Lookup(fsys, fname) = NoFile
    THEN [err |-> "no such file", log |-> <<>>]
    ELSE [err |-> "", log |-> <<Ev("open", fname)>>]

\* xopen for writing with os.O_CREATE|oflags|os.O_WRONLY, oflags one of
\* "O_EXCL" and "O_TRUNC": the file exists and is empty when it returns nil
xopenWrite(fsys, fname, oflags) ==
    IF oflags = "O_EXCL" /\ fsys[fname] # NoFile
    THEN [err |-> "file exists", fs |-> fsys, log |-> <<>>]
    ELSE [err |-> "",
          fs  |-> [fsys EXCEPT ![fname] = Raw("")],
          log |-> <<Ev(IF fsys[fname] = NoFile THEN "create" ELSE "trunc", fname)>>]

(****************************** envelope codec *****************************)
ParseErr(e) == [err |-> e, comment |-> "", buf |-> Nil, msg |-> ""]

\* parseb64file on the bytes of a file
parseb64file(c) ==
    IF c.kind = "raw"
    THEN LET lines == SplitAfterN(c.data, "\n", 3)
         IN IF Len(lines) < 2 \/ ~HasPrefix(lines[1], COMMENTHDR)
            THEN ParseErr("invalid comment")
            ELSE IF Len(TrimSuffix(lines[1], "\n")) >= COMMENTMAXLEN
            THEN ParseErr("comment too long")
            ELSE IF ~HasSuffix(lines[2], "\n")
            THEN ParseErr("missing new line after base64")
            ELSE \* raw bytes never hold the base64 of a record
                 ParseErr("invalid base64 encoding")
    ELSE LET comment == c.line
         IN IF ~HasPrefix(c.line \o "\n", COMMENTHDR)
            THEN ParseErr("invalid comment")
            ELSE IF Len(comment) >= COMMENTMAXLEN
            THEN ParseErr("comment too long")
            ELSE IF BlobSize(c.blob) < 2 \/ c.blob.Pkalg # PKALG
            THEN ParseErr("unsupported file")
            ELSE [err |-> "", comment |-> TrimPrefix(comment, COMMENTHDR),
                  buf |-> c.blob, msg |-> c.msg]

\* readb64file: open, read all, parse; the trailing message is dropped
readb64file(fsys, filename) ==
    LET parsed(o, p) ==
            IF o.err # "" THEN [err |-> o.err, comment |-> "", buf |-> Nil, log |-> o.log]
            ELSE [err |-> p.err, comment |-> p.comment, buf |-> p.buf, log |-> o.log]
    IN parsed(xopenRead(fsys, filename), parseb64file(Lookup(fsys, filename)))

\* readmsg: the bytes of a file
readmsg(fsys, filename) ==
    LET opened(o) ==
            IF o.err # "" THEN [err |-> o.err, msg |-> "", log |-> o.log]
            ELSE [err |-> "", msg |-> fsys[filename].data, log |-> o.log]
    IN opened(xopenRead(fsys, filename))

\* the length check of writeb64file on the header line it is about to write
HeaderTooLong(comment) == Len(COMMENTHDR \o comment \o "\n") >= COMMENTMAXLEN

\* writeb64file without the trailing message
writeb64fileNoMsg(fsys, filename, comment, data, msg, oflags) ==
    LET opened(o) ==
            IF o.err # "" THEN [err |-> o.err, fs |-> fsys, log |-> o.log, dirty |-> {}]
            ELSE IF HeaderTooLong(comment)
            THEN [err |-> "comment too long", fs |-> o.fs, log |-> o.log, dirty |-> {}]
            ELSE [err |-> "",
                  fs  |-> [o.fs EXCEPT ![filename] = Env(COMMENTHDR \o comment, data, "")],
                  log |-> o.log,
                  dirty |-> IF data.t = "enckey" THEN {"writeb64file.buf"} ELSE {}]
    IN opened(xopenWrite(fsys, filename, oflags))

\* writeb64file: opens (creates or truncates) the file first, then checks the
\* header length, then writes header, base64 line and message.  dirty names
\* the buffers that still hold the serialized record when it returns.
writeb64file(fsys, filename, comment, data, msg, oflags) ==
    LET opened(o) ==
            IF o.err # "" THEN [err |-> o.err, fs |-> fsys, log |-> o.log, dirty |-> {}]
            ELSE IF HeaderTooLong(comment)
            THEN [err |-> "comment too long", fs |-> o.fs, log |-> o.log, dirty |-> {}]
            ELSE [err |-> "",
                  fs  |-> [o.fs EXCEPT ![filename] = Env(COMMENTHDR \o comment, data, msg)],
                  log |-> o.log,
                  dirty |-> IF data.t = "enckey" THEN {"writeb64file.buf"} ELSE {}]
    IN opened(xopenWrite(fsys, filename, oflags))

(******************************* key masking *******************************)
\* reader.ReadBytes('\n') for the n-th line of standard input: the line with
\* its newline, or what is left of the input together with io.EOF
ReadBytes(stdin, n) ==
    IF n > Len(stdin) THEN [err |-> "EOF", data |-> ""]
    ELSE IF HasSuffix(stdin[n], "\n") THEN [err |-> "", data |-> stdin[n]]
    ELSE [err |-> "EOF", data |-> stdin[n]]

\* the passphrase bytes handed to bcrypt_pbkdf: pass[0 : len(pass)-2]
PassBytes(pass) == SubSeq(pass, 1, Len(pass) - 2)

KdfRet(e, key, dirty, prompted) ==
    [err |-> e, key |-> key, dirty |-> dirty, prompted |-> prompted]

\* kdf: key is the mask written to the caller's buffer (0: left all-zero),
\* dirty the buffers of kdf that hold passphrase bytes when it returns,
\* prompted the number of prompts printed
kdf(salt, rounds, confirm, stdin) ==
    LET read(r1, r2) ==
            LET pass == r1.data
                pass2 == r2.data
            IN IF r1.err # ""
               THEN \* returns before the deferred wipe of pass is registered
                    KdfRet("unable to read passphrase", 0,
                           IF pass # "" THEN {"kdf.pass"} ELSE {}, 1)
               ELSE IF Len(pass) = 1
               THEN KdfRet("please provide a password", 0, {}, 1)
               ELSE IF confirm /\ r2.err # ""
               THEN \* returns before the deferred wipe of pass2 is registered
                    KdfRet(r2.err, 0, IF pass2 # "" THEN {"kdf.pass2"} ELSE {}, 2)
               ELSE IF confirm /\ pass # pass2
               THEN KdfRet("passwords don't match", 0, {}, 2)
               ELSE KdfRet("", bcrypt_pbkdf(PassBytes(pass), salt, rounds), {},
                           IF confirm THEN 2 ELSE 1)
    IN IF rounds = 0 THEN KdfRet("", 0, {}, 0)
       ELSE read(ReadBytes(stdin, 1), ReadBytes(stdin, 2))

(****************************** key generator ******************************)
CmdRet(e, fsys, log, dirty, prompted) ==
    [err |-> e, fs |-> fsys, log |-> log, dirty |-> dirty, prompted |-> prompted]

\* generate: rnd is what the random source yields (key pair, key identifier,
\* salt), stdin the lines typed at the passphrase prompts
generate(fsys, pubkeyfile, seckeyfile, rounds, comment, rnd, stdin) ==
    LET privateKey == rnd.key
        digest == SHA512(privateKey)
        seccomment == comment \o " secret key"
        pubkey == [t |-> "pubkey", Pkalg |-> PKALG, Keynum |-> rnd.keynum,
                   Pubkey |-> PublicOf(rnd.key)]
        pubcomment == comment \o " public key"
        \* privateKey is never wiped; enckey, xorkey and digest are, by defer
        own == {"generate.privateKey"}
        masked(k) ==
            LET xorkey == k.key
                enckey == [t |-> "enckey", Pkalg |-> PKALG, Kdfalg |-> KDFALG,
                           Kdfrounds |-> rounds, Salt |-> rnd.salt, Checksum |-> digest,
                           Keynum |-> rnd.keynum, Seckey |-> Xor(privateKey, xorkey)]
                secwritten(w1) ==
                    LET pubwritten(w2) ==
                            CmdRet(w2.err, w2.fs, w1.log \o w2.log, own \cup w1.dirty,
                                   k.prompted)
                    IN IF w1.err # ""
                       THEN CmdRet(w1.err, w1.fs, w1.log, own \cup w1.dirty, k.prompted)
                       ELSE IF Len(pubcomment) >= COMMENTMAXLEN
                       THEN CmdRet("comment too long", w1.fs, w1.log, own \cup w1.dirty,
                                   k.prompted)
                       ELSE pubwritten(writeb64file(w1.fs, pubkeyfile, pubcomment, pubkey,
                                                    "", "O_EXCL"))
            IN IF k.err # "" THEN CmdRet(k.err, fsys, <<>>, own \cup k.dirty, k.prompted)
               ELSE IF Len(seccomment) >= COMMENTMAXLEN
               THEN CmdRet("comment too long", fsys, <<>>, own, k.prompted)
               ELSE secwritten(writeb64file(fsys, seckeyfile, seccomment, enckey, "",
                                            "O_EXCL"))
    IN masked(kdf(rnd.salt, rounds, TRUE, stdin))

(********************************* signer **********************************)
\* the comment sign gives the signature file
SigComment(seckeyfile, comment) ==
    IF HasSuffix(seckeyfile, ".sec")
    THEN VERIFYWITH \o TrimSuffix(seckeyfile, ".sec") \o ".pub"
    ELSE "signature from " \o comment

\* sign
sign(fsys, seckeyfile, msgfile, sigfile, embedded, stdin) ==
    LET read(r) ==
            LET \* the text of the secret-key file parseb64file copied into strings
                copies == IF r.log # <<>> THEN {"parseb64file.lines"} ELSE {}
                \* buf, the decoded secret-key record, is never wiped
                own == copies \cup {"sign.buf"}
                decoded(br) ==
                    LET enckey == br.v
                        masked(k) ==
                            LET seckey == Xor(enckey.Seckey, k.key)
                                digest == SHA512(seckey)
                                msgread(m) ==
                                    LET sg == [t |-> "sig", Pkalg |-> PKALG,
                                               Keynum |-> enckey.Keynum,
                                               Sig |-> Ed25519Sign(seckey, m.msg)]
                                        sigcomment == SigComment(seckeyfile, r.comment)
                                        log == r.log \o m.log \o <<Ev("sign", msgfile)>>
                                        written(w) ==
                                            CmdRet(w.err, w.fs, log \o w.log, own, k.prompted)
                                    IN IF m.err # ""
                                       THEN CmdRet(m.err, fsys, r.log \o m.log, own, k.prompted)
                                       ELSE IF Len(sigcomment) >= COMMENTMAXLEN
                                       THEN CmdRet("comment too long", fsys, log, own,
                                                   k.prompted)
                                       ELSE written(writeb64file(fsys, sigfile, sigcomment, sg,
                                                       IF embedded THEN m.msg ELSE "",
                                                       "O_TRUNC"))
                            IN IF k.err # ""
                               THEN CmdRet(k.err, fsys, r.log, own \cup k.dirty, k.prompted)
                               ELSE IF enckey.Checksum # digest
                               THEN CmdRet("incorrect passphrase", fsys, r.log, own,
                                           k.prompted)
                               ELSE msgread(readmsg(fsys, msgfile))
                    IN IF br.err # "" THEN CmdRet(br.err, fsys, r.log, own, 0)
                       ELSE IF enckey.Kdfalg # KDFALG
                       THEN CmdRet("unsupported KDF", fsys, r.log, own, 0)
                       ELSE masked(kdf(enckey.Salt, enckey.Kdfrounds, FALSE, stdin))
            IN IF r.err # "" THEN CmdRet(r.err, fsys, r.log, copies, 0)
               ELSE decoded(BinaryRead(r.buf, "enckey"))
    IN read(readb64file(fsys, seckeyfile))

(******************************** verifier *********************************)
\* verifymsg without the comparison of the key identifiers
verifymsgNoKeynum(pubkey, msg, sg) ==
    IF ~Ed25519Verify(pubkey.Pubkey, msg, sg.Sig)
    THEN "signature verification failed"
    ELSE ""

\* verifymsg
verifymsg(pubkey, msg, sg) ==
    IF pubkey.Keynum # sg.Keynum
    THEN "verification failed: checked against wrong key"
    ELSE IF ~Ed25519Verify(pubkey.Pubkey, msg, sg.Sig)
    THEN "signature verification failed"
    ELSE ""

\* the path readpubkey takes from a signature comment: tokens[1] of
\* strings.SplitAfterN(sigcomment, VERIFYWITH, 2)
RecoveredPath(sigcomment) == SplitAfterN(sigcomment, VERIFYWITH, 2)[2]

\* the check on a recovered path without the test for a "/../" segment
UntrustedPrefixOnly(pubkeyfile) == ~HasPrefix(pubkeyfile, safepath)

\* the check readpubkey makes on a recovered path
Untrusted(pubkeyfile) ==
    ~HasPrefix(pubkeyfile, safepath) \/ Contains(pubkeyfile, "/../")

\* readpubkey
readpubkey(fsys, pubkeyfile, sigcomment) ==
    LET read(file, r) ==
            IF r.err # "" THEN [err |-> r.err, buf |-> Nil, log |-> r.log]
            ELSE [err |-> "", buf |-> r.buf, log |-> r.log]
        checked(file) ==
            IF pubkeyfile = "" /\ Untrusted(file)
            THEN [err |-> "untrusted path", buf |-> Nil, log |-> <<>>]
            ELSE read(file, readb64file(fsys, file))
    IN IF pubkeyfile = "" /\ ~Contains(sigcomment, VERIFYWITH)
       THEN [err |-> "must specify pubkey", buf |-> Nil, log |-> <<>>]
       ELSE checked(IF pubkeyfile = "" THEN RecoveredPath(sigcomment) ELSE pubkeyfile)

NoCall == [called |-> FALSE]

VerRet(e, msg, log, sigcomment, pkerr, vm) ==
    [err |-> e, msg |-> msg, log |-> log, sigcomment |-> sigcomment,
     pkerr |-> pkerr, vm |-> vm]

\* what verifysimple and verifyembedded do once message and signature
\* envelope are read: the error readpubkey returns is overwritten by that
\* of the binary.Read that follows it
verifytail(fsys, pubkeyfile, msg, s, log) ==
    LET keyread(bs, pk) ==
            LET decoded(bp) ==
                    IF bp.err # ""
                    THEN VerRet(bp.err, "", log \o pk.log, s.comment, pk.err, NoCall)
                    ELSE VerRet(verifymsg(bp.v, msg, bs.v), msg, log \o pk.log, s.comment,
                                pk.err,
                                [called |-> TRUE, pubkey |-> bp.v, msg |-> msg, sig |-> bs.v])
            IN decoded(BinaryRead(pk.buf, "pubkey"))
        sigread(bs) ==
            IF bs.err # "" THEN VerRet(bs.err, "", log, s.comment, "", NoCall)
            ELSE keyread(bs, readpubkey(fsys, pubkeyfile, s.comment))
    IN sigread(BinaryRead(s.buf, "sig"))

\* verifysimple
verifysimple(fsys, pubkeyfile, msgfile, sigfile) ==
    LET sigread(m, s) ==
            IF s.err # "" THEN VerRet(s.err, "", m.log \o s.log, "", "", NoCall)
            ELSE verifytail(fsys, pubkeyfile, m.msg, s, m.log \o s.log)
        msgread(m) ==
            IF m.err # "" THEN VerRet(m.err, "", m.log, "", "", NoCall)
            ELSE sigread(m, readb64file(fsys, sigfile))
    IN msgread(readmsg(fsys, msgfile))

\* verifyembedded: the message is what follows the two envelope lines
verifyembedded(fsys, pubkeyfile, sigfile) ==
    LET parsed(o, s) ==
            IF s.err # "" THEN VerRet(s.err, "", o.log, "", "", NoCall)
            ELSE verifytail(fsys, pubkeyfile, s.msg, s, o.log)
        opened(o) ==
            IF o.err # "" THEN VerRet(o.err, "", o.log, "", "", NoCall)
            ELSE parsed(o, parseb64file(Lookup(fsys, sigfile)))
    IN opened(xopenRead(fsys, sigfile))

\* verify: with embedded, the recovered message is written to msgfile
verify(fsys, pubkeyfile, msgfile, sigfile, embedded) ==
    LET written(v, o) ==
            [v |-> v, fs |-> [o.fs EXCEPT ![msgfile] = Raw(v.msg)], log |-> v.log \o o.log]
        verified(v) ==
            IF ~embedded \/ v.err # "" THEN [v |-> v, fs |-> fsys, log |-> v.log]
            ELSE written(v, xopenWrite(fsys, msgfile, "O_TRUNC"))
    IN verified(IF embedded THEN verifyembedded(fsys, pubkeyfile, sigfile)
                ELSE verifysimple(fsys, pubkeyfile, msgfile, sigfile))

(******************************** commands *********************************)
\* the paths of the model's file system
SecPaths == {"k.sec", "key", "/etc/signify/k.sec", "/etc/signify/../k.sec"}
PubPaths == {"k.pub", "/etc/signify/k.pub", "/etc/signify/../k.pub"}
MsgPaths == {"m"}
SigPaths == {"m.sig"}
Paths == SecPaths \cup PubPaths \cup MsgPaths \cup SigPaths

\* rounds as Main sets it: 42, or 0 with -n
Rounds == {0, DefaultRounds}

Unwritten == [by |-> "none"]

NoCmd ==
    [op |-> "none", args |-> <<>>, err |-> "", out |-> "", log |-> <<>>, dirty |-> {},
     prompted |-> 0, entered |-> <<>>, sigcomment |-> "", pkerr |-> "", vm |-> NoCall]

\* the files a command created or truncated
Written(log) == {log[i].path : i \in {j \in DOMAIN log : log[j].ev \in {"create", "trunc"}}}

\* the lines of standard input a command consumed
Entered(stdin, prompted) ==
    SubSeq(stdin, 1, IF prompted < Len(stdin) THEN prompted ELSE Len(stdin))

\* signify -G
Generate(pubkeyfile, seckeyfile, rounds, comment, rnd, stdin) ==
    \E g \in {generate(fs, pubkeyfile, seckeyfile, rounds, comment, rnd, stdin)} :
    LET entered == Entered(stdin, g.prompted)
    IN /\ fs' = g.fs
       /\ prov' = [f \in Paths |->
                     IF f \in Written(g.log)
                     THEN [by |-> "generate", ok |-> g.err = "", sec |-> seckeyfile,
                           pub |-> pubkeyfile, rounds |-> rounds, entered |-> entered]
                     ELSE prov[f]]
       /\ last' = [NoCmd EXCEPT !.op = "generate",
                     !.args = [pub |-> pubkeyfile, sec |-> seckeyfile, rounds |-> rounds,
                               comment |-> comment],
                     !.err = g.err, !.log = g.log, !.dirty = g.dirty,
                     !.prompted = g.prompted, !.entered = entered]
       /\ UNCHANGED <<cb, ck>>

\* signify -S
Sign(seckeyfile, msgfile, sigfile, embedded, stdin) ==
    \E g \in {sign(fs, seckeyfile, msgfile, sigfile, embedded, stdin)} :
    LET entered == Entered(stdin, g.prompted)
    IN /\ fs' = g.fs
       /\ prov' = [f \in Paths |->
                     IF f \in Written(g.log)
                     THEN [by |-> "sign", ok |-> g.err = "", sec |-> seckeyfile,
                           msg |-> Lookup(fs, msgfile), embedded |-> embedded]
                     ELSE prov[f]]
       /\ last' = [NoCmd EXCEPT !.op = "sign",
                     !.args = [sec |-> seckeyfile, msgf |-> msgfile, sigf |-> sigfile,
                               embedded |-> embedded],
                     !.err = g.err, !.log = g.log, !.dirty = g.dirty,
                     !.prompted = g.prompted, !.entered = entered]
       /\ UNCHANGED <<cb, ck>>

\* signify -V
Verify(pubkeyfile, msgfile, sigfile, embedded) ==
    \E g \in {verify(fs, pubkeyfile, msgfile, sigfile, embedded)} :
       /\ fs' = g.fs
       /\ prov' = [f \in Paths |->
                     IF f \in Written(g.log) THEN [by |-> "verify"] ELSE prov[f]]
       /\ last' = [NoCmd EXCEPT !.op = "verify",
                     !.args = [pub |-> pubkeyfile, msgf |-> msgfile, sigf |-> sigfile,
                               embedded |-> embedded],
                     !.err = g.v.err, !.out = g.v.msg, !.log = g.log,
                     !.sigcomment = g.v.sigcomment, !.pkerr = g.v.pkerr, !.vm = g.v.vm]
       /\ UNCHANGED <<cb, ck>>

NoCb == [stage |-> "off"]
NoCk == [stage |-> "off"]

\* the messages to sign
Msgs == {"", "hello\nworld\n"}

\* at the start the message file holds a message, and no other file exists
FsInit ==
    /\ \E m \in Msgs : fs = [f \in Paths |-> IF f \in MsgPaths THEN Raw(m) ELSE NoFile]
    /\ prov = [f \in Paths |-> Unwritten]
    /\ last = NoCmd

(*********************** the round-trip specification **********************)
\* the passphrase lines typed: empty, two that differ in the last character
\* only, one that differs from both in the first
PassLines == {"\n", "ab\n", "ac\n", "bb\n"}

\* what is typed at the two prompts of generate
StdinGenerate == {<<l, l>> : l \in PassLines} \cup {<<"ab\n", "ac\n">>}

\* what is typed at the prompt of sign
StdinSign == {<<l>> : l \in PassLines}

\* comments: the default, and the shortest ones that sign, writeb64file and
\* generate each reject
Comments ==
    {"signify"} \cup {Pad(COMMENTMAXLEN - n) : n \in {46, 31, 11}}

Init ==
    /\ FsInit
    /\ cb = NoCb
    /\ ck = NoCk

\* the inputs of generate: without passphrase (-n) and any comment, or
\* with a passphrase and the default comment
GenInputs ==
    {[rounds |-> 0, comment |-> c, stdin |-> <<>>] : c \in Comments}
    \cup {[rounds |-> DefaultRounds, comment |-> "signify", stdin |-> i] :
            i \in StdinGenerate}

Next ==
    \/ \E sec \in {"k.sec", "key"}, in \in GenInputs :
          Generate("k.pub", sec, in.rounds, in.comment,
                   [key |-> 1, keynum |-> 1, salt |-> 1], in.stdin)
    \/ \E sec \in {"k.sec", "key"}, embedded \in BOOLEAN, stdin \in StdinSign :
          Sign(sec, "m", "m.sig", embedded, stdin)
    \/ \E embedded \in BOOLEAN :
          Verify("k.pub", "m", "m.sig", embedded)

Spec == Init /\ [][Next]_vars

(************************ claims on the round trip **************************)
\* secret key K was written by a generate that returned nil
GeneratedKey(K) == prov[K].by = "generate" /\ prov[K].ok

\* secret key K and public key P were written by one generate that returned nil
GeneratedPair(K, P) ==
    /\ GeneratedKey(K) /\ prov[K].pub = P
    /\ prov[P].by = "generate" /\ prov[P].ok /\ prov[P].sec = K

\* the last command is a sign with a generated secret key, and the line typed
\* at its prompt (if the key has one) is the line typed at generate
SignStep ==
    /\ last.op = "sign"
    /\ GeneratedKey(last.args.sec)
    /\ prov[last.args.sec].rounds > 0 =>
         /\ Len(last.entered) = 1
         /\ prov[last.args.sec].entered = <<last.entered[1], last.entered[1]>>

\* the last command is a verify with the public key given, of a signature
\* written by a successful sign with the secret key generated with it
VerifyStep ==
    /\ last.op = "verify"
    /\ last.args.pub # ""
    /\ prov[last.args.sigf].by = "sign"
    /\ prov[last.args.sigf].ok
    /\ GeneratedPair(prov[last.args.sigf].sec, last.args.pub)

DetachedRoundTrip ==
    (VerifyStep /\ ~last.args.embedded /\ fs[last.args.msgf] = prov[last.args.sigf].msg)
        => last.err = ""

EmbeddedRoundTrip ==
    (VerifyStep /\ last.args.embedded /\ prov[last.args.sigf].embedded)
        => (last.err = "" /\ Raw(last.out) = prov[last.args.sigf].msg)

\* the header line sign is to write for the key at K stays below the bound
SigCommentFits(K) ==
    Len(COMMENTHDR) + Len(SigComment(K, TrimPrefix(fs[K].line, COMMENTHDR))) + 1
        < COMMENTMAXLEN

C2_WrongPassphraseRejected ==
    last.op = "sign" /\ GeneratedKey(last.args.sec) =>
        LET g == prov[last.args.sec]
        IN IF g.rounds = 0 THEN last.prompted = 0
           ELSE (Len(last.entered) = 1 /\ last.entered[1] # "\n"
                 /\ last.entered[1] # g.entered[1])
                => /\ last.err = "incorrect passphrase"
                   /\ \A i \in DOMAIN last.log :
                        last.log[i] = Ev("open", last.args.sec)

\* C3: when generate or sign returns, no buffer still holds secret material
C3_SecretsWiped == last.op \in {"generate", "sign"} => last.dirty = {}

\* C10: every file generate or sign created or truncated holds a complete
\* envelope when the command returns; a "comment too long" failure created
\* or truncated nothing; generate never touches a file that existed
C10_NoPartialFiles ==
    last.op \in {"generate", "sign"} =>
        /\ \A f \in Written(last.log) : fs[f].kind = "env"
        /\ last.err = "comment too long" => Written(last.log) = {}
        /\ last.op = "generate" => \A i \in DOMAIN last.log : last.log[i].ev # "trunc"

(*********************** the verification specification ********************)
\* the comments a signature file may carry
SigComments ==
    {VERIFYWITH \o p : p \in PubPaths} \cup {"signature from signify secret key"}

\* where the public key file exists: everywhere, in the trusted directory
\* only, nowhere
PubPlacements == {PubPaths, {"/etc/signify/k.pub"}, {}}

SigBlob(keynum, k, m) ==
    [t |-> "sig", Pkalg |-> PKALG, Keynum |-> keynum, Sig |-> Ed25519Sign(k, m)]

PubBlob(keynum, k) ==
    [t |-> "pubkey", Pkalg |-> PKALG, Keynum |-> keynum, Pubkey |-> PublicOf(k)]

\* the files verify is run on: a message, a signature file with any comment,
\* key identifier, signature and trailing message, and a public key file
VInit ==
    /\ \E c \in SigComments, placed \in PubPlacements,
          sk \in 1..NumKeys, sn \in 1..NumKeynums, signed \in Msgs, trailing \in Msgs,
          pk \in 1..NumKeys, pn \in 1..NumKeynums :
          fs = [f \in Paths |->
                  IF f = "m" THEN Raw("hello\nworld\n")
                  ELSE IF f = "m.sig"
                  THEN Env(COMMENTHDR \o c, SigBlob(sn, sk, signed), trailing)
                  ELSE IF f \in placed
                  THEN Env(COMMENTHDR \o "signify public key", PubBlob(pn, pk), "")
                  ELSE NoFile]
    /\ prov = [f \in Paths |-> Unwritten]
    /\ last = NoCmd
    /\ cb = NoCb
    /\ ck = NoCk

VNext ==
    \E pub \in PubPaths \cup {""}, embedded \in BOOLEAN :
        Verify(pub, "m", "m.sig", embedded)

SpecVerify == VInit /\ [][VNext]_vars

\* the comment of the signature file of the last verify, and the path that
\* follows the first "verify with " in it
LastSigComment == TrimPrefix(fs[last.args.sigf].line, COMMENTHDR)

PathInComment(c) == SubSeq(c, Index(c, VERIFYWITH) + Len(VERIFYWITH), Len(c))

\* C7: with no public-key path given, a verify whose signature comment names
\* a path outside /etc/signify/ or with a /../ segment opens no file but
\* message and signature and does not succeed; nor does a verify whose
\* signature comment has no "verify with "
C7_PathConfinement ==
    (last.op = "verify" /\ last.args.pub = "") =>
        LET c == LastSigComment
        IN IF Index(c, VERIFYWITH) = 0 THEN last.err # ""
           ELSE (~HasPrefix(PathInComment(c), "/etc/signify/")
                 \/ Index(PathInComment(c), "/../") # 0)
                => /\ last.err # ""
                   /\ \A i \in DOMAIN last.log :
                        last.log[i].path \in {last.args.msgf, last.args.sigf}

\* the comment names a path with a /../ segment under /etc/signify/, the file
\* there is the public key the signature verifies with, and verify refused
C7_Witness ==
    /\ last.op = "verify" /\ last.args.pub = "" /\ ~last.args.embedded
    /\ LastSigComment = VERIFYWITH \o "/etc/signify/../k.pub"
    /\ fs["/etc/signify/../k.pub"] # NoFile
    /\ verifymsg(fs["/etc/signify/../k.pub"].blob, fs["m"].data, fs["m.sig"].blob) = ""
    /\ last.err # ""

\* C8: verifymsg returns "wrong key" whenever the identifiers differ,
\* "signature verification failed" only when they are equal and the
\* signature check fails, and nil only when they are equal and it passes
C8_VerifyMsg ==
    (last.op = "verify" /\ last.vm.called) =>
        LET same == last.vm.pubkey.Keynum = last.vm.sig.Keynum
            good == Ed25519Verify(last.vm.pubkey.Pubkey, last.vm.msg, last.vm.sig.Sig)
        IN /\ ~same => last.err = "verification failed: checked against wrong key"
           /\ last.err = "signature verification failed" => (same /\ ~good)
           /\ last.err = "" => (same /\ good)

\* the identifiers differ although the signature is good for key and message
C8_Witness ==
    /\ last.op = "verify" /\ last.vm.called
    /\ last.vm.pubkey.Keynum # last.vm.sig.Keynum
    /\ Ed25519Verify(last.vm.pubkey.Pubkey, last.vm.msg, last.vm.sig.Sig)
    /\ last.err = "verification failed: checked against wrong key"

\* C11: when readpubkey fails within a verify, the error verify returns is
\* the error readpubkey produced
C11_PubkeyErrorReturned ==
    (last.op = "verify" /\ last.pkerr # "") => last.err = last.pkerr

(*********************** the comment-bound specification ********************)
\* the longest comment c for which header+c stays below the bound
LongestComment == COMMENTMAXLEN - COMMENTHDRLEN - 1

CInit ==
    /\ FsInit
    /\ cb \in {[stage |-> "in", n |-> n] :
                 n \in (LongestComment - CommentSpan)..(LongestComment + CommentSpan)}
    /\ ck = NoCk

\* write a signature envelope with a comment of cb.n characters, and parse
\* the envelope whose first line is the header and that comment
TryComment ==
    /\ cb.stage = "in"
    /\ \E c \in {Pad(cb.n)} :
       \E w \in {writeb64file(fs, "m.sig", c, SigBlob(1, 1, ""), "", "O_TRUNC")} :
         /\ cb' = [stage |-> "out", n |-> cb.n, werr |-> w.err,
                   perr |-> parseb64file(Env(COMMENTHDR \o c, SigBlob(1, 1, ""), "")).err]
         /\ fs' = w.fs
    /\ UNCHANGED <<prov, last, ck>>

CNext == TryComment

SpecComment == CInit /\ [][CNext]_vars

\* C4: writeb64file rejects a comment exactly when parseb64file rejects the
\* line header+comment, namely when that line has 1024 characters or more
C4_SameBound ==
    cb.stage = "out" =>
        /\ (cb.werr = "comment too long") <=> (cb.perr = "comment too long")
        /\ (cb.werr = "comment too long") <=> (COMMENTHDRLEN + cb.n >= COMMENTMAXLEN)

(********************** the checksum manifest verifier *********************)
\* A token of a manifest line is a text: a word, or the lowercase hex or the
\* standard base64 encoding of n bytes identified by v.  The words of the
\* model are not valid base64.
W(s) == [enc |-> "word", n |-> 0, v |-> s]
Hex(n, v) == [enc |-> "hex", n |-> n, v |-> v]
B64(n, v) == [enc |-> "b64", n |-> n, v |-> v]

\* len() of a text: two hex digits a byte, four base64 characters for every
\* three bytes with padding
TextLen(t) ==
    CASE t.enc = "hex" -> 2 * t.n
      [] t.enc = "b64" -> 4 * ((t.n + 2) \div 3)
      [] OTHER         -> Len(t.v)

Str(t) == IF t.enc = "word" THEN t.v ELSE "#"

\* base64.StdEncoding.DecodeString: hex digits are base64 characters, so a
\* hex text whose length is a multiple of four decodes, to other bytes
Base64Decode(t) ==
    IF t.enc = "b64" THEN [err |-> "", n |-> t.n, v |-> t.v]
    ELSE IF t.enc = "hex" /\ TextLen(t) % 4 = 0
    THEN [err |-> "", n |-> (TextLen(t) * 3) \div 4, v |-> <<"base64 of hex", t.v>>]
    ELSE [err |-> "illegal base64 data", n |-> 0, v |-> <<>>]

\* recodehash: a text of 2*size characters is taken as hex as it is; any
\* other is base64-decoded and hex-encoded
recodehash(hash, size) ==
    LET decoded(h) ==
            IF h.err # "" THEN [err |-> h.err, hash |-> hash]
            ELSE [err |-> "", hash |-> Hex(h.n, h.v)]
    IN IF TextLen(hash) = 2 * size THEN [err |-> "", hash |-> hash]
       ELSE decoded(Base64Decode(hash))

\* hash.SHA256File / hash.SHA512File: the hex digest of the file's bytes
HashFile(fsys, file, algo, size) ==
    IF Lookup(fsys, file).kind # "raw" THEN [err |-> "no such file", hash |-> W("")]
    ELSE [err |-> "", hash |-> Hex(size, <<algo, Lookup(fsys, file).data>>)]

\* verifychecksum
verifychecksum(fsys, c) ==
    LET hashed(r, f) ==
            IF r.err # "" THEN [ok |-> FALSE, err |-> r.err]
            ELSE IF f.err # "" THEN [ok |-> FALSE, err |-> f.err]
            ELSE [ok |-> f.hash = r.hash, err |-> ""]
    IN IF c.algo = "SHA256"
       THEN hashed(recodehash(c.hash, SHA256Size),
                   HashFile(fsys, c.file, "SHA256", SHA256Size))
       ELSE IF c.algo = "SHA512"
       THEN hashed(recodehash(c.hash, SHA512Size),
                   HashFile(fsys, c.file, "SHA512", SHA512Size))
       ELSE [ok |-> FALSE, err |-> "can't handle algorithm"]

\* setAlgo: the algorithm of a two-column record, from the length of its digest
setAlgo(c) ==
    IF TextLen(c.hash) = 2 * SHA256Size THEN [ok |-> TRUE, algo |-> "SHA256"]
    ELSE IF TextLen(c.hash) = 2 * SHA512Size THEN [ok |-> TRUE, algo |-> "SHA512"]
    ELSE [ok |-> FALSE, algo |-> c.algo]

\* fmt.Sscanf(line, "%s (%s = %s", &c.algo, &c.file, &c.hash) on the
\* space-separated tokens of a line: n is the number of items scanned
ScanBSD(line) ==
    IF Len(line) < 1 THEN [n |-> 0]
    ELSE IF Len(line) < 2 \/ ~HasPrefix(Str(line[2]), "(") \/ Str(line[2]) = "("
    THEN [n |-> 1]
    ELSE IF Len(line) < 4 \/ Str(line[3]) # "=" THEN [n |-> 2]
    ELSE [n |-> 3, algo |-> Str(line[1]), file |-> TrimPrefix(Str(line[2]), "("),
          hash |-> line[4]]

\* fmt.Sscanf(line, "%s  %s", &c.file, &c.hash)
ScanLinux(line) ==
    IF Len(line) < 2 THEN [n |-> Len(line)]
    ELSE [n |-> 2, file |-> Str(line[1]), hash |-> line[2]]

\* the record verifychecksums takes from a line, or the parse error
ParseLine(line) ==
    LET record(e, algo, file, hash) ==
            [err |-> e, algo |-> algo, file |-> TrimSuffix(file, ")"), hash |-> hash]
        linux(l) ==
            LET inferred(a) ==
                    IF ~a.ok THEN record("unable to parse checksum line", "", "", W(""))
                    ELSE record("", a.algo, l.file, l.hash)
            IN IF l.n # 2 THEN record("unable to parse checksum line", "", "", W(""))
               ELSE inferred(setAlgo([algo |-> "", file |-> l.file, hash |-> l.hash]))
        bsd(b) ==
            IF b.n = 3 THEN record("", b.algo, b.file, b.hash)
            ELSE linux(ScanLinux(line))
    IN bsd(ScanBSD(line))


\* the aggregate failure verifychecksums returns (flag.ErrHelp)
ErrHelp == "flag: help requested"

\* what verifychecksums returns: the error, the names reported as FAIL, and
\* the names verifychecksum was called on, in order
SumRet(e, failed, checked) == [err |-> e, failed |-> failed, checked |-> checked]

\* whether verifychecksums checks the record of a line
Selected(filtered, checkFiles, file) == ~filtered \/ file \in checkFiles

\* the update of checkFiles that never takes a verified name out of it
SettleKeep(filtered, checkFiles, file, chk) ==
    IF filtered THEN checkFiles
    ELSE IF ~chk THEN checkFiles \cup {file} ELSE checkFiles

\* the update of checkFiles after a check: with a filter a verified name is
\* deleted, without one a name that did not verify is added
Settle(filtered, checkFiles, file, chk) ==
    IF filtered THEN (IF chk THEN checkFiles \ {file} ELSE checkFiles)
    ELSE IF ~chk THEN checkFiles \cup {file} ELSE checkFiles

\* the scanner loop of verifychecksums and what follows it
RECURSIVE scanLines(_, _, _, _, _)
scanLines(fsys, lines, filtered, checkFiles, checked) ==
    LET parsed(c) ==
            LET verified(v) ==
                    IF v.err # "" THEN SumRet(v.err, {}, Append(checked, c.file))
                    ELSE scanLines(fsys, Tail(lines), filtered,
                                   Settle(filtered, checkFiles, c.file, v.ok),
                                   Append(checked, c.file))
            IN IF c.err # "" THEN SumRet(c.err, {}, checked)
               ELSE IF ~Selected(filtered, checkFiles, c.file)
               THEN scanLines(fsys, Tail(lines), filtered, checkFiles, checked)
               ELSE verified(verifychecksum(fsys, c))
    IN IF lines = <<>>
       THEN SumRet(IF checkFiles # {} THEN ErrHelp ELSE "", checkFiles, checked)
       ELSE parsed(ParseLine(lines[1]))

\* verifychecksums
verifychecksums(fsys, msg, args) ==
    scanLines(fsys, msg, Len(args) > 0, {args[i] : i \in DOMAIN args}, <<>>)

\* check: verify the embedded signature of the manifest, then the checksums
check(fsys, pubkeyfile, sigfile, args) ==
    LET verified(v) ==
            IF v.err # "" THEN [v |-> v, msg |-> <<>>, ret |-> SumRet(v.err, {}, <<>>)]
            ELSE [v |-> v, msg |-> v.msg, ret |-> verifychecksums(fsys, v.msg, args)]
    IN verified(verifyembedded(fsys, pubkeyfile, sigfile))

\* signify -C
Check(pubkeyfile, sigfile, args) ==
    \E g \in {check(fs, pubkeyfile, sigfile, args)} :
       /\ ck' = [stage |-> "done", args |-> args, verr |-> g.v.err, msg |-> g.msg,
                 ret |-> g.ret]
       /\ last' = [NoCmd EXCEPT !.op = "check",
                     !.args = [pub |-> pubkeyfile, sigf |-> sigfile, files |-> args],
                     !.err = g.ret.err, !.log = g.v.log,
                     !.sigcomment = g.v.sigcomment, !.pkerr = g.v.pkerr, !.vm = g.v.vm]
       /\ UNCHANGED <<fs, prov, cb>>

(********************** the manifest specification **************************)
\* the files a manifest names
DataPaths == {"a", "b"}

\* the digest algorithms and the sizes of their digests
Algos == {"SHA256", "SHA512"}
Size(algo) == IF algo = "SHA256" THEN SHA256Size ELSE SHA512Size

\* the bytes of the algo digest of data
Digest(algo, data) == <<algo, data>>

\* the digest texts of a manifest: of the content on disk ("x") or of other
\* content ("y"), in hex or base64
Digests(enc) ==
    {[enc |-> enc, n |-> Size(algo), v |-> Digest(algo, d)] :
        algo \in Algos, d \in {"x", "y"}}

BSDLine(algo, file, hash) == <<W(algo), W("(" \o file \o ")"), W("="), hash>>
LinuxLine(file, hash) == <<W(file), hash>>

\* the lines of a manifest: for "a" both shapes with every digest text, an
\* unsupported algorithm, a digest of the other algorithm, a digest that is
\* no encoding, and a 48-byte base64 text as long as a SHA256 hex digest;
\* for "b" a few; and a line of neither shape
ManifestLines ==
    {BSDLine(h.v[1], "a", h) : h \in Digests("hex") \cup Digests("b64")}
    \cup {LinuxLine("a", h) : h \in Digests("hex") \cup Digests("b64")}
    \cup {BSDLine("MD5", "a", Hex(SHA256Size, Digest("SHA256", "x"))),
          BSDLine("SHA256", "a", Hex(SHA512Size, Digest("SHA512", "x"))),
          BSDLine("SHA256", "a", W("?")),
          LinuxLine("a", B64(48, Digest("SHA384", "x"))),
          BSDLine("SHA256", "b", Hex(SHA256Size, Digest("SHA256", "x"))),
          BSDLine("SHA256", "b", Hex(SHA256Size, Digest("SHA256", "y"))),
          LinuxLine("b", Hex(SHA512Size, Digest("SHA512", "y"))),
          <<W("junk")>>}

Manifests == UNION {[1..n -> ManifestLines] : n \in 0..MaxLines}

\* the file names given to signify -C
ArgLists == {<<>>, <<"a">>, <<"a", "b">>}

\* a signed manifest with its public key, and the named files, of which at
\* most one cannot be read
KInit ==
    /\ \E msg \in Manifests, readable \in {DataPaths, {"a"}, {"b"}} :
          fs = [f \in Paths \cup DataPaths |->
                  IF f = "m.sig"
                  THEN Env(COMMENTHDR \o VERIFYWITH \o "k.pub", SigBlob(1, 1, msg), msg)
                  ELSE IF f = "k.pub"
                  THEN Env(COMMENTHDR \o "signify public key", PubBlob(1, 1), "")
                  ELSE IF f \in readable THEN Raw("x")
                  ELSE NoFile]
    /\ prov = [f \in Paths |-> Unwritten]
    /\ last = NoCmd
    /\ cb = NoCb
    /\ ck = NoCk

KNext ==
    \E pub \in {"k.pub", ""}, args \in ArgLists : Check(pub, "m.sig", args)

SpecCheck == KInit /\ [][KNext]_vars


(************************** claims on the manifest *************************)
\* a check whose manifest passed signature verification has returned
Checked == ck.stage = "done" /\ ck.verr = ""

\* the records of the manifest of the last check
Records == [i \in DOMAIN ck.msg |-> ParseLine(ck.msg[i])]

Filter == {ck.args[i] : i \in DOMAIN ck.args}

Readable(file) == Lookup(fs, file).kind = "raw"

\* the bytes a digest text stands for
Bytes(t) == [n |-> t.n, v |-> t.v]

\* record c names a supported algorithm and carries a digest that decodes
Usable(c) == c.err = "" /\ c.algo \in Algos /\ recodehash(c.hash, Size(c.algo)).err = ""

\* record c names a readable file whose digest is the one the record gives
Matches(c) ==
    /\ c.err = "" /\ c.algo \in Algos /\ c.hash.enc \in {"hex", "b64"}
    /\ Readable(c.file)
    /\ Bytes(c.hash) = [n |-> Size(c.algo), v |-> Digest(c.algo, Lookup(fs, c.file).data)]

\* C5: without a filter every record of a manifest of usable records is
\* checked, the names reported as failed are those of the records that
\* mismatch or whose file cannot be read, and the aggregate failure is
\* returned exactly when there is such a name
C5_UnfilteredCollects ==
    (Checked /\ ck.args = <<>> /\ \A i \in DOMAIN Records : Usable(Records[i])) =>
        /\ ck.ret.checked = [i \in DOMAIN Records |-> Records[i].file]
        /\ ck.ret.failed = {Records[i].file : i \in {j \in DOMAIN Records : ~Matches(Records[j])}}
        /\ ck.ret.err = IF ck.ret.failed # {} THEN ErrHelp ELSE ""

\* the filtered names for which no record of the manifest verified
Unverified == {f \in Filter : ~\E i \in DOMAIN Records : Records[i].file = f /\ Matches(Records[i])}

\* what C6 says of a filtered check
FilteredOutcome ==
    /\ \A i \in DOMAIN ck.ret.checked : ck.ret.checked[i] \in Filter
    /\ ck.ret.failed = Unverified
    /\ ck.ret.err = IF Unverified # {} THEN ErrHelp ELSE ""

\* C6 as stated: with a filter whose files are all readable only records of
\* filtered names are checked, the names reported as failed are the filtered
\* names no record verified, and the aggregate failure is returned exactly
\* when there is one
C6_Filtered ==
    (Checked /\ ck.args # <<>> /\ \A f \in Filter : Readable(f)) => FilteredOutcome

\* C6 as amended: the same, provided every line parses and every record of a
\* filtered name is usable; a manifest with a line of neither shape ends the
\* check with an error other than the aggregate failure and reports no name
C6_FilteredUsable ==
    (Checked /\ ck.args # <<>> /\ \A f \in Filter : Readable(f)) =>
        /\ (\A i \in DOMAIN Records :
               /\ Records[i].err = ""
               /\ Records[i].file \in Filter => Usable(Records[i]))
           => FilteredOutcome
        /\ (\E i \in DOMAIN Records : Records[i].err # "")
           => (ck.ret.err \notin {"", ErrHelp} /\ ck.ret.failed = {})

\* a check of "a" alone passed over a manifest whose record for "b" mismatches
C6_Witness ==
    /\ Checked /\ ck.args = <<"a">> /\ Readable("a") /\ Readable("b")
    /\ \E i \in DOMAIN Records :
          Records[i].err = "" /\ Records[i].file = "b" /\ ~Matches(Records[i])
    /\ ck.ret.checked = <<"a">>
    /\ ck.ret.err = "" /\ ck.ret.failed = {}

\* a hex digest text as base64 text of the same bytes
ToBase64(t) == IF t.enc = "hex" THEN B64(t.n, t.v) ELSE t

Base64Line(line) == [i \in DOMAIN line |-> ToBase64(line[i])]

\* C9: a one-line manifest whose record carries the hex digest of its
\* algorithm gives the same record and the same outcome when the digest is
\* written in base64
C9_Base64Equivalent ==
    (Checked /\ Len(ck.msg) = 1 /\ Records[1].err = ""
       /\ Records[1].algo \in Algos /\ Records[1].hash.enc = "hex"
       /\ Records[1].hash.n = Size(Records[1].algo)) =>
        /\ ParseLine(Base64Line(ck.msg[1])) =
              [Records[1] EXCEPT !.hash = ToBase64(Records[1].hash)]
        /\ verifychecksums(fs, <<Base64Line(ck.msg[1])>>, ck.args) = ck.ret

====
